---- MODULE Spec2Model ----
(***************************************************************************)
(* Accounting core of the artha trading simulator: the transaction-cost    *)
(* model, the per-symbol transaction ledger (EnhancedPosition), the legacy *)
(* aggregate Position, the Portfolio and TradeExecutor.execute_buy /       *)
(* execute_sell, the XIRR calculator and the FIFO lot matching.            *)
(*                                                                         *)
(* Four specifications: Spec is a session of trades and day changes from a *)
(* loaded or new game, NewGameSpec the same from a new game only,          *)
(* SingleSpec one call of one function, LedgerSpec one call of a method of *)
(* an EnhancedPosition built from a free transaction list.                 *)
(*                                                                         *)
(* Money.  The program computes with Python floats.  The model computes    *)
(* with exact arithmetic: an amount of money is an integer number of       *)
(* thousandths of a rupee, and a quotient (avg_buy_price, realized P&L) is *)
(* an exact rational kept as a mixed number w + n/d.  Every rate of the    *)
(* cost model is an exact fraction, and the prices a session draws make    *)
(* every cost component a whole number of thousandths, so no rounding      *)
(* happens anywhere in a session.  The single calls at the end of the      *)
(* module also use trade values whose GST is not a whole thousandth: there *)
(* MulRate cuts what is below a thousandth, and round(x, 2) is modelled on *)
(* the cut amount.                                                         *)
(***************************************************************************)
EXTENDS Integers, Sequences, FiniteSets, TLC

VARIABLES cash, positions, realized_pnl, current_day, ncalls, last, prev

vars == <<cash, positions, realized_pnl, current_day, ncalls, last, prev>>

(***************************************************************************)
(* Bounds of the model.                                                    *)
(***************************************************************************)
\* number of execute_buy / execute_sell calls in one run
MaxCalls == 3
\* number of advance-day steps in one run
MaxDay == 1

Symbols == {"A", "B"}
Quantities == {1, 2}
\* trade prices, in thousandths: Rs 20,000 and Rs 40,000.  A trade of value
\* 20,000 or 40,000 pays uncapped brokerage, one of 80,000 the capped Rs 20.
Prices == {20000 * 1000, 40000 * 1000}
\* Portfolio(cash=100000) as the tests build it
InitialCash == 100000 * 1000

(***************************************************************************)
(* Exact rationals as mixed numbers: [w, n, d] is w + n/d with 0 <= n < d, *)
(* n/d in lowest terms and d = 1 when n = 0, so equal values are equal     *)
(* records.                                                                *)
(***************************************************************************)
RECURSIVE GCD(_, _)
GCD(a, b) == IF b = 0 THEN a ELSE GCD(b, a % b)

RatNorm(w, n, d) ==
    LET w2 == w + (n \div d)
        n2 == n % d
        g  == GCD(d, n2)
    IN  [w |-> w2, n |-> n2 \div g, d |-> d \div g]

RatInt(i) == [w |-> i, n |-> 0, d |-> 1]

RatAdd(a, b) == RatNorm(a.w + b.w, a.n * b.d + b.n * a.d, a.d * b.d)

RatNeg(a) ==
    IF a.n = 0 THEN RatInt(-a.w)
    ELSE [w |-> -a.w - 1, n |-> a.d - a.n, d |-> a.d]

RatSub(a, b) == RatAdd(a, RatNeg(b))

\* a * k for an integer k >= 0
RatMulInt(a, k) == RatNorm(a.w * k, a.n * k, a.d)

\* i / k for integers i and k > 0
RatDivInt(i, k) == RatNorm(i \div k, i % k, k)

(***************************************************************************)
(* config.py: the rates, each as numerator / denominator.                  *)
(***************************************************************************)
BROKERAGE_RATE_NUM == 3
BROKERAGE_RATE_DEN == 10000
STT_RATE_BUY_NUM == 0
STT_RATE_SELL_NUM == 1
STT_RATE_DEN == 1000
EXCHANGE_CHARGES_RATE_NUM == 13
EXCHANGE_CHARGES_RATE_DEN == 400000
GST_RATE_NUM == 9
GST_RATE_DEN == 50
SEBI_FEES_RATE_NUM == 1
SEBI_FEES_RATE_DEN == 1000000
\* min(brokerage, 20.0)
BROKERAGE_CAP == 20000

\* amount * num / den, computed without leaving the 32-bit range
MulRate(amount, num, den) ==
    (amount \div den) * num + (((amount % den) * num) \div den)

Min(a, b) == IF a < b THEN a ELSE b

(***************************************************************************)
(* TradeExecutor.calculate_all_costs: the five components and their total. *)
(***************************************************************************)
Brokerage(trade_value) ==
    Min(MulRate(trade_value, BROKERAGE_RATE_NUM, BROKERAGE_RATE_DEN), BROKERAGE_CAP)

\* variant: the sell side taxed at the buy-side rate
SttNoSellTax(trade_value, is_buy) == MulRate(trade_value, STT_RATE_BUY_NUM, STT_RATE_DEN)

Stt(trade_value, is_buy) ==
    MulRate(trade_value,
            IF is_buy THEN STT_RATE_BUY_NUM ELSE STT_RATE_SELL_NUM,
            STT_RATE_DEN)

ExchangeCharges(trade_value) ==
    MulRate(trade_value, EXCHANGE_CHARGES_RATE_NUM, EXCHANGE_CHARGES_RATE_DEN)

SebiFees(trade_value) == MulRate(trade_value, SEBI_FEES_RATE_NUM, SEBI_FEES_RATE_DEN)

\* variant: GST charged on the trade value
GstOnTradeValue(trade_value) == MulRate(trade_value, GST_RATE_NUM, GST_RATE_DEN)

Gst(trade_value) ==
    MulRate(Brokerage(trade_value) + ExchangeCharges(trade_value),
            GST_RATE_NUM, GST_RATE_DEN)

calculate_all_costs(trade_value, is_buy) ==
    Brokerage(trade_value) + Stt(trade_value, is_buy) + ExchangeCharges(trade_value)
        + SebiFees(trade_value) + Gst(trade_value)

(***************************************************************************)
(* transaction_models.py: PositionTransaction and EnhancedPosition.        *)
(***************************************************************************)
PositionTransaction(date, quantity, price, transaction_type, commission) ==
    [date |-> date, quantity |-> quantity, price |-> price,
     transaction_type |-> transaction_type, commission |-> commission]

\* variant: the loop with the commission left out of the cost basis
RECURSIVE RecalcLoopNoCommission(_, _, _, _)
RecalcLoopNoCommission(transactions, i, total_quantity, total_cost_basis) ==
    IF i > Len(transactions) THEN <<total_quantity, total_cost_basis>>
    ELSE LET trans == transactions[i]
         IN  IF trans.transaction_type = "BUY"
             THEN RecalcLoopNoCommission(transactions, i + 1,
                                         total_quantity + trans.quantity,
                                         total_cost_basis
                                             + trans.quantity * trans.price)
             ELSE RecalcLoopNoCommission(transactions, i + 1,
                                         total_quantity - trans.quantity,
                                         total_cost_basis)

\* variant: a SELL takes its proceeds out of the cost basis
RECURSIVE RecalcLoopSellReducesBasis(_, _, _, _)
RecalcLoopSellReducesBasis(transactions, i, total_quantity, total_cost_basis) ==
    IF i > Len(transactions) THEN <<total_quantity, total_cost_basis>>
    ELSE LET trans == transactions[i]
         IN  IF trans.transaction_type = "BUY"
             THEN RecalcLoopSellReducesBasis(transactions, i + 1,
                                             total_quantity + trans.quantity,
                                             total_cost_basis
                                                 + (trans.quantity * trans.price
                                                    + trans.commission))
             ELSE RecalcLoopSellReducesBasis(transactions, i + 1,
                                             total_quantity - trans.quantity,
                                             total_cost_basis
                                                 - trans.quantity * trans.price)

\* the loop of _recalculate_position: <<total_quantity, total_cost_basis>>
\* after the transactions from index i on
RECURSIVE RecalcLoop(_, _, _, _)
RecalcLoop(transactions, i, total_quantity, total_cost_basis) ==
    IF i > Len(transactions) THEN <<total_quantity, total_cost_basis>>
    ELSE LET trans == transactions[i]
         IN  IF trans.transaction_type = "BUY"
             THEN RecalcLoop(transactions, i + 1,
                             total_quantity + trans.quantity,
                             total_cost_basis
                                 + (trans.quantity * trans.price + trans.commission))
             ELSE RecalcLoop(transactions, i + 1,
                             total_quantity - trans.quantity,
                             total_cost_basis)

\* sum(trans.quantity for trans in transactions if BUY)
RECURSIVE TotalBoughtQuantity(_)
TotalBoughtQuantity(transactions) ==
    IF transactions = <<>> THEN 0
    ELSE (IF Head(transactions).transaction_type = "BUY"
          THEN Head(transactions).quantity ELSE 0)
         + TotalBoughtQuantity(Tail(transactions))

\* variant: the average taken over the shares still held, not those bought
RecalculateOverHeld(pos) ==
    LET totals == RecalcLoop(pos.transactions, 1, 0, 0)
    IN  [pos EXCEPT !.quantity = totals[1],
                    !.cost_basis = totals[2],
                    !.avg_buy_price =
                        IF totals[1] > 0
                        THEN RatDivInt(totals[2], totals[1])
                        ELSE RatInt(0)]

\* _recalculate_position: the cached _quantity, _cost_basis, _avg_buy_price
Recalculate(pos) ==
    LET totals == RecalcLoop(pos.transactions, 1, 0, 0)
        total_bought_quantity == TotalBoughtQuantity(pos.transactions)
    IN  [pos EXCEPT !.quantity = totals[1],
                    !.cost_basis = totals[2],
                    !.avg_buy_price =
                        IF total_bought_quantity > 0
                        THEN RatDivInt(totals[2], total_bought_quantity)
                        ELSE RatInt(0)]

\* EnhancedPosition.__init__
EnhancedPosition(symbol, current_price, transactions) ==
    Recalculate([kind |-> "enhanced", symbol |-> symbol,
                 current_price |-> current_price, transactions |-> transactions,
                 quantity |-> 0, avg_buy_price |-> RatInt(0), cost_basis |-> 0])

\* variant: the new transaction put in front of the list
add_transaction_first(pos, transaction) ==
    Recalculate([pos EXCEPT !.transactions = <<transaction>> \o pos.transactions])

\* EnhancedPosition.add_transaction
add_transaction(pos, transaction) ==
    Recalculate([pos EXCEPT !.transactions = Append(pos.transactions, transaction)])

\* models/__init__.py: the legacy aggregate Position
Position(symbol, quantity, avg_buy_price, current_price) ==
    [kind |-> "legacy", symbol |-> symbol, quantity |-> quantity,
     avg_buy_price |-> avg_buy_price, current_price |-> current_price]

\* hasattr(pos, 'add_transaction')
HasAddTransaction(pos) == pos.kind = "enhanced"

\* variant: the ledger's average taken without the commissions paid
AvgBuyPriceNoCommission(pos) ==
    IF HasAddTransaction(pos)
    THEN RatDivInt(RecalcLoopNoCommission(pos.transactions, 1, 0, 0)[2],
                   TotalBoughtQuantity(pos.transactions))
    ELSE RatInt(pos.avg_buy_price)

\* pos.avg_buy_price as a rational, for either kind of position
AvgBuyPrice(pos) ==
    IF HasAddTransaction(pos) THEN pos.avg_buy_price ELSE RatInt(pos.avg_buy_price)

\* market_value of either kind of position
MarketValue(pos) ==
    IF HasAddTransaction(pos)
    THEN (IF pos.quantity < 0 THEN -pos.quantity ELSE pos.quantity) * pos.current_price
    ELSE pos.quantity * pos.current_price

\* Portfolio.positions_value
RECURSIVE PositionsValue(_)
PositionsValue(poss) ==
    IF poss = <<>> THEN 0 ELSE MarketValue(Head(poss)) + PositionsValue(Tail(poss))

\* unrealized_pnl of either kind of position, as Portfolio._get_unrealized_pnl
\* reads it: an EnhancedPosition prices the shares held at cost basis / shares
\* ever bought, a legacy Position at its average
unrealized_pnl(pos) ==
    IF HasAddTransaction(pos)
    THEN IF pos.quantity > 0
         THEN LET total_bought_quantity == TotalBoughtQuantity(pos.transactions)
              IN  IF total_bought_quantity > 0
                  THEN RatSub(RatInt(MarketValue(pos)),
                              RatMulInt(RatDivInt(pos.cost_basis, total_bought_quantity),
                                        pos.quantity))
                  ELSE RatInt(0)
         ELSE RatInt(0)
    ELSE RatInt(pos.quantity * pos.current_price - pos.quantity * pos.avg_buy_price)

RECURSIVE UnrealizedSum(_)
UnrealizedSum(poss) ==
    IF poss = <<>> THEN RatInt(0)
    ELSE RatAdd(unrealized_pnl(Head(poss)), UnrealizedSum(Tail(poss)))

\* Portfolio.total_pnl
total_pnl(pf) == RatAdd(pf.realized_pnl, UnrealizedSum(pf.positions))

\* Portfolio.total_value
total_value(pf) == pf.cash + PositionsValue(pf.positions)

(***************************************************************************)
(* trade_executor.py: TradeResult, validation, execute_buy, execute_sell.  *)
(***************************************************************************)
TradeResult(success, message, executed_price, quantity, total_cost, commission, pnl) ==
    [success |-> success, message |-> message, executed_price |-> executed_price,
     quantity |-> quantity, total_cost |-> total_cost, commission |-> commission,
     realized_pnl |-> pnl]

\* TradeResult(success=False, message=...): the other fields keep their defaults
Failure(message) == TradeResult(FALSE, message, 0, 0, 0, 0, RatInt(0))

\* variant: the two limits themselves refused
validate_limits_refused(symbol, quantity, price) ==
    IF symbol = "" THEN [valid |-> FALSE, message |-> "Symbol cannot be empty"]
    ELSE IF quantity <= 0
    THEN [valid |-> FALSE, message |-> "Quantity must be positive"]
    ELSE IF quantity >= 10000
    THEN [valid |-> FALSE, message |-> "Quantity too large (max 10,000)"]
    ELSE IF price <= 0
    THEN [valid |-> FALSE, message |-> "Price must be positive"]
    ELSE IF price >= 100000 * 1000
    THEN [valid |-> FALSE, message |-> "Price unrealistic"]
    ELSE [valid |-> TRUE, message |-> "OK"]

\* the message of each check is its text in the source up to the first
\* character outside ASCII; the messages of the executor are their leading
\* words, before the formatted amounts
validate_trade_inputs(symbol, quantity, price) ==
    IF symbol = "" THEN [valid |-> FALSE, message |-> "Symbol cannot be empty"]
    ELSE IF quantity <= 0
    THEN [valid |-> FALSE, message |-> "Quantity must be positive"]
    ELSE IF quantity > 10000
    THEN [valid |-> FALSE, message |-> "Quantity too large (max 10,000)"]
    ELSE IF price <= 0
    THEN [valid |-> FALSE, message |-> "Price must be positive"]
    ELSE IF price > 100000 * 1000
    THEN [valid |-> FALSE, message |-> "Price unrealistic"]
    ELSE [valid |-> TRUE, message |-> "OK"]

\* the search loop of execute_buy / execute_sell: the index of the first
\* position with this symbol, 0 when there is none
RECURSIVE FindFrom(_, _, _)
FindFrom(poss, symbol, i) ==
    IF i > Len(poss) THEN 0
    ELSE IF poss[i].symbol = symbol THEN i
    ELSE FindFrom(poss, symbol, i + 1)

\* variant: the search that never finds the symbol
FindPositionNever(poss, symbol) == 0

FindPosition(poss, symbol) == FindFrom(poss, symbol, 1)

\* portfolio.positions.pop(pos_idx)
Pop(poss, idx) == SubSeq(poss, 1, idx - 1) \o SubSeq(poss, idx + 1, Len(poss))

\* variant: a failure that hands back a portfolio without its positions
RejectedEmptied(pf, message) ==
    [portfolio |-> [pf EXCEPT !.positions = <<>>], result |-> Failure(message)]

\* variant: a failure that hands back a portfolio with realized_pnl reset
RejectedPnlReset(pf, message) ==
    [portfolio |-> [pf EXCEPT !.realized_pnl = RatInt(0)], result |-> Failure(message)]

\* a return of success=False: the portfolio as the call found it
Rejected(pf, message) == [portfolio |-> pf, result |-> Failure(message)]

\* variant: the commission left out of what a buy takes from cash
BuyTotalCostNoCommission(trade_value, commission) == trade_value

\* execute_buy line 139
BuyTotalCost(trade_value, commission) == trade_value + commission

\* variant: no funds check
FundsNeverChecked(available_cash, total_cost) == FALSE

\* execute_buy line 142: the funds check
InsufficientFunds(available_cash, total_cost) == available_cash < total_cost

\* variant: the opening BUY priced at the trade's price
ConvertLegacyAtTradePrice(legacy, symbol, price, transaction_date, transaction) ==
    add_transaction(
        add_transaction(
            EnhancedPosition(symbol, price, <<>>),
            PositionTransaction(transaction_date, legacy.quantity, price, "BUY", 0)),
        transaction)

\* the legacy Position turned into an EnhancedPosition holding one synthetic
\* opening BUY (commission 0, dated at the trade) and then the trade
ConvertLegacy(legacy, symbol, price, transaction_date, transaction) ==
    add_transaction(
        add_transaction(
            EnhancedPosition(symbol, price, <<>>),
            PositionTransaction(transaction_date, legacy.quantity,
                                legacy.avg_buy_price, "BUY", 0)),
        transaction)

\* execute_buy lines 152-209: the positions after a buy that passed the checks
BuyPositions(poss, symbol, price, transaction_date, transaction) ==
    LET pos_idx == FindPosition(poss, symbol)
    IN  IF pos_idx # 0
        THEN IF HasAddTransaction(poss[pos_idx])
             THEN [poss EXCEPT ![pos_idx] =
                      [add_transaction(@, transaction) EXCEPT !.current_price = price]]
             ELSE [poss EXCEPT ![pos_idx] =
                      ConvertLegacy(@, symbol, price, transaction_date, transaction)]
        ELSE Append(poss,
                    add_transaction(EnhancedPosition(symbol, price, <<>>), transaction))

execute_buy(pf, symbol, quantity, price, transaction_date) ==
    LET v == validate_trade_inputs(symbol, quantity, price)
    IN  IF ~v.valid THEN Rejected(pf, v.message)
        ELSE
        LET trade_value == price * quantity
            commission  == calculate_all_costs(trade_value, TRUE)
            total_cost  == BuyTotalCost(trade_value, commission)
            transaction == PositionTransaction(transaction_date, quantity, price,
                                               "BUY", commission)
        IN  IF InsufficientFunds(pf.cash, total_cost)
            THEN Rejected(pf, "Insufficient funds")
            ELSE [portfolio |->
                      [cash |-> pf.cash - total_cost,
                       positions |-> BuyPositions(pf.positions, symbol, price,
                                                  transaction_date, transaction),
                       realized_pnl |-> pf.realized_pnl],
                  result |-> TradeResult(TRUE, "Bought", price, quantity,
                                         total_cost, commission, RatInt(0))]

\* variant: no quantity check
QuantityNeverChecked(available_quantity, quantity) == FALSE

\* variant: a sell of everything held is refused
QuantityAllHeldRefused(available_quantity, quantity) == available_quantity <= quantity

\* execute_sell line 266: the quantity check
InsufficientQuantity(available_quantity, quantity) == available_quantity < quantity

\* execute_sell line 275
NetProceeds(trade_value, commission) == trade_value - commission

\* execute_sell lines 286-318: the position after the sell transaction is added
SoldPosition(position, symbol, price, transaction_date, transaction) ==
    IF HasAddTransaction(position)
    THEN add_transaction(position, transaction)
    ELSE ConvertLegacy(position, symbol, price, transaction_date, transaction)

\* variant: a position sold out is kept
SellPositionsNeverPopped(poss, pos_idx, sold, price) ==
    [poss EXCEPT ![pos_idx] = [sold EXCEPT !.current_price = price]]

\* execute_sell lines 289-293 and 318-322: a position sold out is popped,
\* one still held is kept at the trade's price
SellPositions(poss, pos_idx, sold, price) ==
    IF sold.quantity = 0 THEN Pop(poss, pos_idx)
    ELSE [poss EXCEPT ![pos_idx] = [sold EXCEPT !.current_price = price]]

\* variant: the realized P&L without the sell's commission
RealizedPnlNoCommission(position, trade_value, commission, quantity) ==
    RatSub(RatInt(trade_value), RatMulInt(AvgBuyPrice(position), quantity))

\* execute_sell lines 334-340
RealizedPnl(position, trade_value, commission, quantity) ==
    RatSub(RatInt(trade_value - commission),
           RatMulInt(AvgBuyPrice(position), quantity))

execute_sell(pf, symbol, quantity, price, transaction_date) ==
    LET v == validate_trade_inputs(symbol, quantity, price)
        pos_idx == FindPosition(pf.positions, symbol)
    IN  IF ~v.valid THEN Rejected(pf, v.message)
        ELSE IF pos_idx = 0 THEN Rejected(pf, "No position")
        ELSE IF InsufficientQuantity(pf.positions[pos_idx].quantity, quantity)
        THEN Rejected(pf, "Insufficient quantity")
        ELSE
        LET position == pf.positions[pos_idx]
            trade_value  == price * quantity
            commission   == calculate_all_costs(trade_value, FALSE)
            net_proceeds == NetProceeds(trade_value, commission)
            transaction  == PositionTransaction(transaction_date, quantity, price,
                                                "SELL", commission)
            sold == SoldPosition(position, symbol, price, transaction_date,
                                 transaction)
            \* the object the name position refers to at line 334: the ledger
            \* with the sell added, or the untouched legacy Position
            named == IF HasAddTransaction(position) THEN sold ELSE position
            pnl == RealizedPnl(named, trade_value, commission, quantity)
        IN  [portfolio |->
                 [cash |-> pf.cash + net_proceeds,
                  positions |-> SellPositions(pf.positions, pos_idx, sold, price),
                  realized_pnl |-> RatAdd(pf.realized_pnl, pnl)],
             result |-> TradeResult(TRUE, "Sold", price, quantity, net_proceeds,
                                    commission, pnl)]

(***************************************************************************)
(* The session: a Portfolio, the simulated day, and what the caller saw of *)
(* the executor: last is the latest call (arguments, result, and the cash, *)
(* realized P&L and held symbols the call found), prev the latest          *)
(* successful call before it.                                              *)
(***************************************************************************)
Portfolio == [cash |-> cash, positions |-> positions, realized_pnl |-> realized_pnl]

HeldSymbols(poss) == {poss[i].symbol : i \in 1..Len(poss)}

NoCall ==
    [op |-> "none", symbol |-> "", quantity |-> 0, price |-> 0, date |-> 0,
     result |-> Failure(""),
     before |-> [cash |-> 0, realized_pnl |-> RatInt(0), held |-> {}]]

Call(op, symbol, quantity, price, date, result) ==
    [op |-> op, symbol |-> symbol, quantity |-> quantity, price |-> price,
     date |-> date, result |-> result,
     before |-> [cash |-> cash, realized_pnl |-> realized_pnl,
                 held |-> HeldSymbols(positions)]]

\* the orders a caller places: well-formed ones, and one malformed order for
\* each check of validate_trade_inputs
ValidOrders == Symbols \X Quantities \X Prices
InvalidOrders ==
    {<<"", 1, 20000 * 1000>>, <<"A", 0, 20000 * 1000>>, <<"A", 1, 100001 * 1000>>}
Orders == ValidOrders \cup InvalidOrders

\* the portfolios a session starts from: a new game, or a saved game loaded
\* with one legacy Position (no transaction history)
Init ==
    /\ cash = InitialCash
    /\ realized_pnl = RatInt(0)
    /\ \/ positions = <<>>
       \/ \E p \in Prices : positions = <<Position("A", 2, p, p)>>
    /\ current_day = 0
    /\ ncalls = 0
    /\ last = NoCall
    /\ prev = NoCall

Apply(op, order, out) ==
    /\ cash' = out.portfolio.cash
    /\ positions' = out.portfolio.positions
    /\ realized_pnl' = out.portfolio.realized_pnl
    /\ ncalls' = ncalls + 1
    /\ prev' = IF last.result.success THEN last ELSE prev
    /\ last' = Call(op, order[1], order[2], order[3], current_day, out.result)
    /\ UNCHANGED current_day

Buy ==
    /\ ncalls < MaxCalls
    /\ \E order \in Orders :
           Apply("buy", order,
                 execute_buy(Portfolio, order[1], order[2], order[3], current_day))

Sell ==
    /\ ncalls < MaxCalls
    /\ \E order \in Orders :
           Apply("sell", order,
                 execute_sell(Portfolio, order[1], order[2], order[3], current_day))

\* dashboard_screen.action_advance_day: the day moves on and every position
\* takes the market's new price when that price is positive.  The market
\* quotes one price a day (0: no quote), the same for every symbol.
AdvanceDay ==
    /\ current_day < MaxDay
    /\ current_day' = current_day + 1
    /\ \E new_price \in Prices \cup {0} :
           positions' =
               [i \in 1..Len(positions) |->
                   IF new_price > 0
                   THEN [positions[i] EXCEPT !.current_price = new_price]
                   ELSE positions[i]]
    /\ UNCHANGED <<cash, realized_pnl, ncalls, last, prev>>

Next == Buy \/ Sell \/ AdvanceDay

Spec == Init /\ [][Next]_vars

(***************************************************************************)
(* Vocabulary of the properties.                                           *)
(***************************************************************************)
\* this step is a call of execute_buy or execute_sell
IsCall == ncalls' = ncalls + 1

\* the position held for a symbol (only used where one is held)
Held(poss, symbol) == poss[FindPosition(poss, symbol)]

IsPrefix(a, b) == Len(a) <= Len(b) /\ SubSeq(b, 1, Len(a)) = a

\* the transaction history the portfolio holds for a symbol
History(poss, symbol) ==
    IF symbol \in HeldSymbols(poss) /\ HasAddTransaction(Held(poss, symbol))
    THEN Held(poss, symbol).transactions
    ELSE <<>>

RECURSIVE SumFn(_, _)
SumFn(f, S) ==
    IF S = {} THEN 0
    ELSE LET x == CHOOSE y \in S : TRUE IN f[x] + SumFn(f, S \ {x})

Side(transactions, side) ==
    {i \in 1..Len(transactions) : transactions[i].transaction_type = side}

\* the latest successful call before the latest call bought what the latest
\* call sold: same symbol, same quantity, same price
RoundTrip ==
    /\ prev.op = "buy" /\ prev.result.success
    /\ last.op = "sell" /\ last.result.success
    /\ last.symbol = prev.symbol
    /\ last.quantity = prev.quantity
    /\ last.price = prev.price

(***************************************************************************)
(* C1.  Cash conservation: a successful buy takes exactly                  *)
(* price*quantity + commission out of cash, a successful sell puts exactly *)
(* price*quantity - commission in, the commission being the full cost of   *)
(* calculate_all_costs for that side; no other step changes cash.          *)
(***************************************************************************)
CashConservation ==
    [][LET c == last'
           trade_value == c.price * c.quantity
       IN  IF IsCall /\ c.result.success
           THEN IF c.op = "buy"
                THEN /\ c.result.commission = calculate_all_costs(trade_value, TRUE)
                     /\ cash' = cash - (trade_value + c.result.commission)
                ELSE /\ c.result.commission = calculate_all_costs(trade_value, FALSE)
                     /\ cash' = cash + (trade_value - c.result.commission)
           ELSE cash' = cash]_vars

\* a sell has paid out after a buy was paid for
CashConservationWitness ==
    /\ prev.op = "buy" /\ prev.result.success
    /\ last.op = "sell" /\ last.result.success
    /\ cash # last.before.cash
    /\ last.before.cash # prev.before.cash

(***************************************************************************)
(* C2.  A rejected call (invalid inputs, insufficient funds, no position,  *)
(* more shares than held) leaves cash, the positions with their            *)
(* transactions and prices, and realized_pnl as they were.                 *)
(***************************************************************************)
RejectionChangesNothing ==
    [][(IsCall /\ ~last'.result.success)
           => /\ cash' = cash
              /\ positions' = positions
              /\ realized_pnl' = realized_pnl]_vars

\* a buy was rejected for lack of funds while a position was held
RejectionWitness ==
    /\ last.op = "buy" /\ ~last.result.success
    /\ last.result.message = "Insufficient funds"
    /\ positions # <<>>
    /\ prev.result.success

(***************************************************************************)
(* C3.  After a successful buy of a symbol not held before, the new        *)
(* position's cost_basis is the cash the buy took: price*quantity plus the *)
(* full commission.                                                        *)
(***************************************************************************)
CostBasisIsCashPaid ==
    [][(/\ IsCall /\ last'.op = "buy" /\ last'.result.success
        /\ last'.symbol \notin HeldSymbols(positions))
           => /\ last'.symbol \in HeldSymbols(positions')
              /\ Held(positions', last'.symbol).cost_basis = cash - cash'
              /\ cash - cash' =
                     last'.price * last'.quantity + last'.result.commission
              /\ last'.result.commission > 0]_vars

\* a first buy of a symbol opened a position while another symbol was held
CostBasisWitness ==
    /\ last.op = "buy" /\ last.result.success
    /\ last.symbol \notin last.before.held
    /\ last.before.held # {}
    /\ last.symbol \in HeldSymbols(positions)

(***************************************************************************)
(* C4.  Buying a quantity and then selling the same quantity at the same   *)
(* price leaves cash lower by exactly buy commission + sell commission,    *)
(* and the sell commission is strictly greater than the buy commission.    *)
(***************************************************************************)
RoundTripLoss ==
    RoundTrip
        => /\ cash = prev.before.cash
                        - (prev.result.commission + last.result.commission)
           /\ last.result.commission > prev.result.commission

\* a round trip of a trade large enough for the brokerage cap
RoundTripLossWitness ==
    /\ RoundTrip
    /\ Brokerage(last.price * last.quantity) = BROKERAGE_CAP
    /\ cash < prev.before.cash

(***************************************************************************)
(* C5.  From a portfolio with no positions and realized_pnl 0, a buy of q  *)
(* at p then a sell of q at p: the sell's realized_pnl is                  *)
(* -(buy commission + sell commission), and portfolio.realized_pnl is the  *)
(* same value and equals final cash minus initial cash.                    *)
(***************************************************************************)
RoundTripRealizedPnl ==
    (/\ RoundTrip
     /\ prev.before.held = {}
     /\ prev.before.realized_pnl = RatInt(0))
        => /\ last.result.realized_pnl =
                  RatInt(-(prev.result.commission + last.result.commission))
           /\ realized_pnl = last.result.realized_pnl
           /\ realized_pnl = RatInt(cash - prev.before.cash)

\* the round trip of two shares from the empty portfolio of a new game
RoundTripRealizedPnlWitness ==
    /\ RoundTrip
    /\ prev.before.held = {}
    /\ prev.before.realized_pnl = RatInt(0)
    /\ prev.before.cash = InitialCash
    /\ last.quantity = 2
    /\ positions = <<>>

(***************************************************************************)
(* C6.  A successful sell of everything held of a symbol removes the       *)
(* position (transaction-based or legacy), and the sum of market values    *)
(* drops by that position's market value before the sell; a successful     *)
(* sell of less leaves the position, its quantity reduced by the amount    *)
(* sold.                                                                   *)
(***************************************************************************)
PositionClosure ==
    [][(IsCall /\ last'.op = "sell" /\ last'.result.success)
           => LET symbol == last'.symbol
                  before == Held(positions, symbol)
              IN  /\ symbol \in HeldSymbols(positions)
                  /\ last'.quantity <= before.quantity
                  /\ (last'.quantity = before.quantity)
                        => /\ symbol \notin HeldSymbols(positions')
                           /\ Len(positions') = Len(positions) - 1
                           /\ PositionsValue(positions') =
                                  PositionsValue(positions) - MarketValue(before)
                  /\ (last'.quantity < before.quantity)
                        => /\ symbol \in HeldSymbols(positions')
                           /\ Len(positions') = Len(positions)
                           /\ Held(positions', symbol).quantity =
                                  before.quantity - last'.quantity]_vars

\* the legacy position a saved game started with was sold out in one sell
\* while a position bought since stays
PositionClosureWitness ==
    /\ ncalls = 2
    /\ prev.op = "buy" /\ prev.result.success /\ prev.symbol = "B"
    /\ last.op = "sell" /\ last.result.success /\ last.symbol = "A"
    /\ "A" \in prev.before.held
    /\ HeldSymbols(positions) = {"B"}

(***************************************************************************)
(* C7.  Every position in the portfolio has quantity > 0: no sequence of   *)
(* buys and sells makes a quantity negative, and a position whose quantity *)
(* reaches 0 is no longer in the portfolio.                                *)
(***************************************************************************)
QuantityPositive ==
    \A i \in 1..Len(positions) : positions[i].quantity > 0

\* an oversell was refused and the position is still held
QuantityPositiveWitness ==
    /\ last.op = "sell" /\ ~last.result.success
    /\ last.result.message = "Insufficient quantity"
    /\ last.symbol \in HeldSymbols(positions)
    /\ Held(positions, last.symbol).quantity = 1
    /\ HasAddTransaction(Held(positions, last.symbol))

(***************************************************************************)
(* C8.  Cash is never negative.                                            *)
(***************************************************************************)
CashNonNegative == cash >= 0

\* a buy was accepted that left less cash than the smallest trade costs
CashNonNegativeWitness ==
    /\ last.op = "buy" /\ last.result.success
    /\ cash < 20000 * 1000

(***************************************************************************)
(* C9.  As claimed: a transaction recorded for a symbol stays, unchanged   *)
(* and in the same relative order, in the symbol's transaction history in  *)
(* every later state, also across a sell that closes the position and a    *)
(* later re-buy.                                                           *)
(***************************************************************************)
HistoryNeverShrinks ==
    [][\A symbol \in Symbols :
           IsPrefix(History(positions, symbol), History(positions', symbol))]_vars

(***************************************************************************)
(* C9, amended.  While the position stays in the portfolio its recorded    *)
(* transactions stay, unchanged and in order, each trade appending one; a  *)
(* sell that brings the quantity to 0 removes the position with its whole  *)
(* transaction list, and a later buy of the symbol starts a list that      *)
(* holds that buy alone.                                                   *)
(***************************************************************************)
HistoryKeptWhileHeld ==
    [][\A symbol \in Symbols :
           LET old == History(positions, symbol)
               new == History(positions', symbol)
           IN  /\ symbol \in HeldSymbols(positions') => IsPrefix(old, new)
               /\ (symbol \in HeldSymbols(positions)
                      /\ symbol \notin HeldSymbols(positions'))
                     => /\ IsCall /\ last'.op = "sell" /\ last'.result.success
                        /\ last'.symbol = symbol
                        /\ last'.quantity = Held(positions, symbol).quantity
                        /\ new = <<>>
               /\ (symbol \notin HeldSymbols(positions)
                      /\ symbol \in HeldSymbols(positions'))
                     => /\ Len(new) = 1
                        /\ new[1].transaction_type = "BUY"
                        /\ new[1].quantity = last'.quantity
                        /\ new[1].price = last'.price]_vars

\* a symbol bought, sold out and bought again: what is held is the re-buy
\* alone
HistoryKeptWitness ==
    /\ ncalls = 3
    /\ prev.op = "sell" /\ prev.result.success
    /\ last.op = "buy" /\ last.result.success /\ last.symbol = prev.symbol
    /\ last.symbol \notin last.before.held
    /\ Len(History(positions, last.symbol)) = 1

(***************************************************************************)
(* C10.  The cached values of every EnhancedPosition agree with its        *)
(* transaction list: quantity = bought - sold, cost_basis = the sum over   *)
(* BUY transactions of quantity*price + commission, avg_buy_price =        *)
(* cost_basis / bought, or 0 when nothing was bought.                      *)
(***************************************************************************)
DerivedAgree(pos) ==
    LET t == pos.transactions
        bought == SumFn([i \in 1..Len(t) |-> t[i].quantity], Side(t, "BUY"))
        sold == SumFn([i \in 1..Len(t) |-> t[i].quantity], Side(t, "SELL"))
        paid == SumFn([i \in 1..Len(t) |->
                          t[i].quantity * t[i].price + t[i].commission],
                      Side(t, "BUY"))
    IN  /\ pos.quantity = bought - sold
        /\ pos.cost_basis = paid
        /\ IF bought = 0 THEN pos.avg_buy_price = RatInt(0)
           ELSE RatMulInt(pos.avg_buy_price, bought) = RatInt(paid)

SecondBuy ==
    /\ last.op = "buy" /\ last.result.success
    /\ Len(History(positions, last.symbol)) = 2

AveragePriceExcludesCommission ==
    SecondBuy =>
        LET pos == Held(positions, last.symbol)
            t == pos.transactions
            value == t[1].quantity * t[1].price + t[2].quantity * t[2].price
        IN  /\ t[2].commission = last.result.commission
            /\ pos.avg_buy_price = RatDivInt(value, t[1].quantity + t[2].quantity)
            /\ pos.cost_basis = value + t[1].commission + t[2].commission

(***************************************************************************)
(* C12.  Every successful execute_sell of q shares at price p adds exactly *)
(* p*q - sell_commission - avg_buy_price*q to portfolio.realized_pnl,      *)
(* avg_buy_price being the position's commission-inclusive average at the  *)
(* time of the sell, and returns that amount as result.realized_pnl;       *)
(* nothing else moves realized_pnl, which is thus the running sum of the   *)
(* amounts the sells returned.                                             *)
(***************************************************************************)
\* avg_buy_price * quantity for the position as the sell finds it: for a
\* ledger, what its BUY transactions paid (commissions included) per share
\* bought; for a legacy Position, its stored average
CostOfSharesSold(pos, quantity) ==
    IF HasAddTransaction(pos)
    THEN LET t == pos.transactions
             bought == SumFn([i \in 1..Len(t) |-> t[i].quantity], Side(t, "BUY"))
             paid == SumFn([i \in 1..Len(t) |->
                               t[i].quantity * t[i].price + t[i].commission],
                           Side(t, "BUY"))
         IN  RatMulInt(RatDivInt(paid, bought), quantity)
    ELSE RatInt(pos.avg_buy_price * quantity)

BuyKeepsRealizedPnl ==
    last.op = "buy" =>
        /\ realized_pnl = last.before.realized_pnl
        /\ last.result.realized_pnl = RatInt(0)

\* an accepted buy by a portfolio that has realized a profit or a loss
BuyKeepsRealizedPnlWitness ==
    /\ last.op = "buy" /\ last.result.success
    /\ prev.op = "sell" /\ prev.result.success
    /\ last.before.realized_pnl # RatInt(0)

(***************************************************************************)
(* C14.  Appending a SELL transaction to a position leaves its cost_basis  *)
(* and its avg_buy_price unchanged: only quantity changes, decreasing by   *)
(* the quantity sold.                                                      *)
(***************************************************************************)
SellKeepsBasis(pos, transaction) ==
    LET sold == add_transaction(pos, transaction)
    IN  /\ sold.cost_basis = pos.cost_basis
        /\ sold.avg_buy_price = pos.avg_buy_price
        /\ sold.quantity = pos.quantity - transaction.quantity
        /\ sold.transactions = Append(pos.transactions, transaction)

SellLeavesCostBasis ==
    \A i \in 1..Len(positions) :
        HasAddTransaction(positions[i]) =>
            \A quantity \in Quantities, price \in Prices :
                SellKeepsBasis(positions[i],
                               PositionTransaction(current_day, quantity, price, "SELL",
                                                   calculate_all_costs(price * quantity,
                                                                       FALSE)))

\* the executor has sold part of a ledger that was bought at two prices
SellLeavesCostBasisWitness ==
    /\ last.op = "sell" /\ last.result.success
    /\ last.symbol \in HeldSymbols(positions)
    /\ LET pos == Held(positions, last.symbol)
       IN  /\ Len(pos.transactions) = 3
           /\ pos.transactions[3].transaction_type = "SELL"
           /\ pos.quantity = 1
           /\ pos.avg_buy_price.n # 0
           /\ pos.cost_basis > 0

(***************************************************************************)
(* C16.  With valid inputs, execute_sell succeeds if and only if the       *)
(* portfolio holds a position in the symbol and the quantity asked is at   *)
(* most the quantity held: with no position it fails with "No position",   *)
(* with more asked than held it fails with "Insufficient quantity", and a  *)
(* sell of exactly the quantity held is accepted.                          *)
(***************************************************************************)
SellAcceptance ==
    [][(/\ IsCall
        /\ last'.op = "sell"
        /\ validate_trade_inputs(last'.symbol, last'.quantity, last'.price).valid)
       => LET holds == last'.symbol \in HeldSymbols(positions)
              enough == holds /\ last'.quantity <= Held(positions, last'.symbol).quantity
          IN  /\ last'.result.success <=> enough
              /\ ~holds => last'.result.message = "No position"
              /\ (holds /\ ~enough) => last'.result.message = "Insufficient quantity"
              /\ enough => last'.result.message = "Sold"]_vars

\* one share bought of a symbol not held before, and then a sell of exactly
\* that one share
SellAcceptanceWitness ==
    /\ prev.op = "buy" /\ prev.result.success /\ prev.quantity = 1
    /\ last.op = "sell" /\ last.result.success
    /\ last.symbol = prev.symbol /\ last.quantity = 1
    /\ last.symbol \notin prev.before.held
    /\ last.symbol \notin HeldSymbols(positions)

(***************************************************************************)
(* Single calls.  A second specification calls one function once, on       *)
(* inputs the session above does not draw: the limits of                   *)
(* validate_trade_inputs, a portfolio whose cash is exactly the cost of a  *)
(* trade, and trade values whose costs do not fall on whole paise.  last   *)
(* records the call and what it returned.                                  *)
(***************************************************************************)
\* the arguments validate_trade_inputs is called with: around each limit
ValidateSymbols == {"", "A"}
ValidateQuantities == {-1, 0, 1, 10000, 10001}
ValidatePrices == {-1000, 0, 1000, 100000 * 1000, 100000 * 1000 + 1}

\* the malformed orders among them
MalformedOrders ==
    {o \in ValidateSymbols \X ValidateQuantities \X ValidatePrices :
        ~validate_trade_inputs(o[1], o[2], o[3]).valid}

\* the orders the executor is called with once: the session's orders, the
\* order of test_buy_exact_cash_match (10 shares at Rs 1,000) and every
\* malformed order
SingleOrders == Orders \cup {<<"A", 10, 1000 * 1000>>} \cup MalformedOrders

\* cash of the portfolio a single call finds: the session's, the 10,003 of
\* test_buy_exact_cash_match, and what one share at Rs 20,000 costs with
\* brokerage alone and with the whole commission
SingleCash ==
    {InitialCash, 10003 * 1000,
     20000 * 1000 + Brokerage(20000 * 1000),
     20000 * 1000 + calculate_all_costs(20000 * 1000, TRUE)}

SingleInit ==
    /\ cash \in SingleCash
    /\ realized_pnl = RatInt(0)
    /\ \/ positions = <<>>
       \/ positions = <<Position("A", 2, 20000 * 1000, 20000 * 1000)>>
    /\ current_day = 0
    /\ ncalls = 0
    /\ last = NoCall
    /\ prev = NoCall

\* a call that is not a trade: the portfolio is not touched
Returned(call) ==
    /\ ncalls' = ncalls + 1
    /\ last' = call
    /\ UNCHANGED <<cash, positions, realized_pnl, current_day, prev>>

SingleValidate ==
    /\ ncalls = 0
    /\ \E symbol \in ValidateSymbols, quantity \in ValidateQuantities,
          price \in ValidatePrices :
           Returned([op |-> "validate_trade_inputs", symbol |-> symbol,
                     quantity |-> quantity, price |-> price,
                     result |-> validate_trade_inputs(symbol, quantity, price)])

SingleBuy ==
    /\ ncalls = 0
    /\ \E order \in SingleOrders :
           Apply("buy", order,
                 execute_buy(Portfolio, order[1], order[2], order[3], current_day))

SingleSell ==
    /\ ncalls = 0
    /\ \E order \in SingleOrders :
           Apply("sell", order,
                 execute_sell(Portfolio, order[1], order[2], order[3], current_day))

(***************************************************************************)
(* calculate_all_costs called once: the total and the breakdown dict.  The *)
(* trade values are the multiples of Rs 4,000: brokerage, STT, exchange    *)
(* charges and SEBI fees are then whole thousandths and only GST, and the  *)
(* total with it, is cut below a thousandth by MulRate.                    *)
(***************************************************************************)
\* number of trade values calculate_all_costs is called with
MaxCostStep == 20

CostValues == {4000 * 1000 * j : j \in 1..MaxCostStep}

\* variant: round(x, 2) cutting the third decimal
Round2Down(amount) == {amount \div 10}

\* round(x, 2) of an amount in thousandths, in paise.  A third decimal of 5
\* is the one case where the float's binary digits (and what MulRate cut)
\* decide the direction: either neighbour can come out
Round2(amount) ==
    LET q == amount \div 10
        r == amount % 10
    IN  IF r < 5 THEN {q} ELSE IF r > 5 THEN {q + 1} ELSE {q, q + 1}

\* the breakdown dicts calculate_all_costs can return, entries in paise
breakdown(trade_value, is_buy) ==
    {[brokerage |-> b, stt |-> s, exchange_charges |-> e, gst |-> g,
      sebi_fees |-> f, total |-> t] :
        b \in Round2(Brokerage(trade_value)),
        s \in Round2(Stt(trade_value, is_buy)),
        e \in Round2(ExchangeCharges(trade_value)),
        g \in Round2(Gst(trade_value)),
        f \in Round2(SebiFees(trade_value)),
        t \in Round2(calculate_all_costs(trade_value, is_buy))}

SingleCosts ==
    /\ ncalls = 0
    /\ \E trade_value \in CostValues, is_buy \in BOOLEAN :
           \E b \in breakdown(trade_value, is_buy) :
               Returned([op |-> "calculate_all_costs", trade_value |-> trade_value,
                         is_buy |-> is_buy,
                         result |-> calculate_all_costs(trade_value, is_buy),
                         breakdown |-> b])

(***************************************************************************)
(* xirr_calculator.py: xirr.  A rate r is kept as the growth per day it    *)
(* stands for, (1 + r)^(1/365.25), counted in 200ths: 200 is the rate 0.0, *)
(* 201 the rate 1.005^365.25 - 1 = 5.18, 199 the rate -0.84.  The rate is  *)
(* positive exactly when the count is above 200, and the equation of xirr, *)
(* the sum of amount / (1 + r)^(days/365.25), is the sum of                *)
(* amount / (count/200)^days, which integers decide.  Amounts are whole    *)
(* rupees here.  scipy's newton is not modelled: a call of it can raise or *)
(* return any rate, and xirr is the set of the values it can then return.  *)
(***************************************************************************)
\* the rate 0.0
ZeroRate == 200

\* what a call of newton can return
SolverResults == 180..220

RECURSIVE Pow(_, _)
Pow(b, e) == IF e = 0 THEN 1 ELSE b * Pow(b, e - 1)

\* days since the first date, lines 57-70
DaysList(cash_flows) ==
    LET start_date == CHOOSE d \in {cash_flows[i].date : i \in 1..Len(cash_flows)} :
                          \A i \in 1..Len(cash_flows) : d <= cash_flows[i].date
    IN  [i \in 1..Len(cash_flows) |-> cash_flows[i].date - start_date]

\* xirr_equation(rate) as a fraction <<numerator, denominator>>, the
\* denominator positive
xirr_equation(cash_flows, rate) ==
    LET days == DaysList(cash_flows)
        longest == CHOOSE d \in {days[i] : i \in 1..Len(days)} :
                       \A i \in 1..Len(days) : days[i] <= d
    IN  <<SumFn([i \in 1..Len(days) |->
                    cash_flows[i].amount * Pow(200, days[i])
                        * Pow(rate, longest - days[i])],
                1..Len(days)),
          Pow(rate, longest)>>

\* abs(xirr_equation(result)) < 1 / one_in
Converged(cash_flows, result, one_in) ==
    LET value == xirr_equation(cash_flows, result)
        size == IF value[1] < 0 THEN -value[1] ELSE value[1]
    IN  size <= (value[2] - 1) \div one_in

\* variant: no upper bound on the result
InRangeNoCeiling(result) == result * 1000000 >= 200 * 981266

\* variant: no bounds on the result
InRangeAnything(result) == TRUE

\* result >= -0.999 and result <= 10: the growth per day between
\* 0.001^(1/365.25) = 0.9812653... and 11^(1/365.25) = 1.0065866...
InRange(result) ==
    /\ result * 1000000 >= 200 * 981266
    /\ result * 1000000 <= 200 * 1006586

\* variant: flows all dated the same day handed to the solver
xirr_dates_unchecked(cash_flows) ==
    IF Len(cash_flows) < 2 THEN {ZeroRate}
    ELSE LET first == {result \in SolverResults :
                          /\ Converged(cash_flows, result, 10000)
                          /\ InRange(result)}
             fallback == {result \in SolverResults :
                             /\ Converged(cash_flows, result, 1000)
                             /\ InRange(result)}
         IN  first \cup fallback \cup {ZeroRate}

\* the values xirr can return.  max(result, -0.999) returns result, which is
\* in range where it is evaluated
xirr(cash_flows) ==
    IF Len(cash_flows) < 2 THEN {ZeroRate}
    ELSE IF Cardinality({cash_flows[i].date : i \in 1..Len(cash_flows)}) = 1
    THEN {ZeroRate}
    ELSE LET first == {result \in SolverResults :
                          /\ Converged(cash_flows, result, 10000)
                          /\ InRange(result)}
             fallback == {result \in SolverResults :
                             /\ Converged(cash_flows, result, 1000)
                             /\ InRange(result)}
         IN  first \cup fallback \cup {ZeroRate}

\* <<amount paid, terminal valuation, days between>> of the series xirr is
\* called with: a gain and a loss of 10% over one to three days, and of
\* 0.5% a day over one and two days
SingleBuySeries ==
    {<<200, 220, gap>> : gap \in 1..3} \cup {<<200, 180, gap>> : gap \in 1..3}
        \cup {<<200, 201, 1>>, <<200, 199, 1>>, <<40000, 40401, 2>>, <<40000, 39601, 2>>}

SingleXirr ==
    /\ ncalls = 0
    /\ \E series \in SingleBuySeries :
           LET cash_flows == <<[date |-> current_day, amount |-> -series[1]],
                               [date |-> current_day + series[3], amount |-> series[2]]>>
           IN  \E result \in xirr(cash_flows) :
                   Returned([op |-> "xirr", cash_flows |-> cash_flows,
                             result |-> result])

(***************************************************************************)
(* EnhancedPosition.calculate_xirr and calculate_position_xirr.  The       *)
(* ledger's amounts are thousandths of a rupee and xirr's are rupees: the  *)
(* prices below are whole rupees, so the division is exact.                *)
(***************************************************************************)
Abs(x) == IF x < 0 THEN -x ELSE x

\* variant: the commission counted in the amount of the flow
XirrTransactionWithCommission(trans) ==
    LET trans_amount == (trans.quantity * trans.price + trans.commission) \div 1000
    IN  [date |-> trans.date,
         amount |-> IF trans.transaction_type = "BUY"
                    THEN -Abs(trans_amount) ELSE Abs(trans_amount),
         transaction_type |-> trans.transaction_type]

\* lines 137-149: the XirrTransaction built from one ledger transaction
XirrTransaction(trans) ==
    LET trans_amount == (trans.quantity * trans.price) \div 1000
    IN  [date |-> trans.date,
         amount |-> IF trans.transaction_type = "BUY"
                    THEN -Abs(trans_amount) ELSE Abs(trans_amount),
         transaction_type |-> trans.transaction_type]

\* calculate_position_xirr lines 139-154: the series handed to xirr
PositionCashFlows(transactions, current_value, current_date) ==
    Append([i \in 1..Len(transactions) |->
               [date |-> transactions[i].date,
                amount |-> IF transactions[i].transaction_type = "BUY"
                           THEN -Abs(transactions[i].amount)
                           ELSE Abs(transactions[i].amount)]],
           [date |-> current_date, amount |-> current_value])

\* the values calculate_position_xirr can return; result < -1 is a growth
\* per day below 0 and result > 10 one above 11^(1/365.25)
calculate_position_xirr(transactions, current_value, current_date) ==
    IF transactions = <<>> THEN {ZeroRate}
    ELSE {IF result < 0 \/ result * 1000000 > 200 * 1006586 THEN ZeroRate ELSE result :
             result \in xirr(PositionCashFlows(transactions, current_value,
                                               current_date))}

calculate_xirr(pos, current_date) ==
    calculate_position_xirr(
        [i \in 1..Len(pos.transactions) |-> XirrTransaction(pos.transactions[i])],
        (pos.quantity * pos.current_price) \div 1000,
        current_date)

(***************************************************************************)
(* xirr with the solver's answers laid open.  newton is called once with   *)
(* the initial guess and then once per entry of guess_list; what it        *)
(* answers to each call (a value, or an exception) is an input here, and   *)
(* xirr_search is what xirr makes of the answers.  Guesses are annual      *)
(* rates in thousandths.                                                   *)
(***************************************************************************)
guess == 100

guess_list ==
    <<-995, -990, -980, -970, -950, -930, -900, -850, -800, -750, -700, -650,
      -600, -550, -500, -450, -400, -350, -300, -250, -200, -150, -100, -50, -10,
      0, 10,
      50, 100, 150, 200, 250, 300, 400, 500, 750, 1000, 1500, 2000, 3000, 5000, 8000>>

\* the calls of newton in the order xirr makes them: lines 86 and 109-111
NewtonCalls ==
    <<[guess |-> guess, maxiter |-> 100]>>
        \o [j \in 1..Len(guess_list) |-> [guess |-> guess_list[j], maxiter |-> 200]]

\* newton raised
Raised == 0

\* variant: the fallback calls held to the tolerance of the first
ToleranceAlwaysFirst(call) == 10000

\* the residual accepted after a call is below 1 / this: lines 88 and 113
Tolerance(call) == IF call = 1 THEN 10000 ELSE 1000

\* variant: the search stops at the first answer, accepted or not
RECURSIVE SearchStopsAtFirstAnswer(_, _, _)
SearchStopsAtFirstAnswer(cash_flows, newton, call) ==
    IF call > Len(NewtonCalls) THEN [result |-> ZeroRate, calls |-> Len(NewtonCalls)]
    ELSE IF newton[call] # Raised
         THEN IF /\ Converged(cash_flows, newton[call], Tolerance(call))
                 /\ InRange(newton[call])
              THEN [result |-> newton[call], calls |-> call]
              ELSE [result |-> ZeroRate, calls |-> call]
         ELSE SearchStopsAtFirstAnswer(cash_flows, newton, call + 1)

\* lines 84-122 from the call-th call of newton on: the value returned and
\* the number of calls made
RECURSIVE Search(_, _, _)
Search(cash_flows, newton, call) ==
    IF call > Len(NewtonCalls) THEN [result |-> ZeroRate, calls |-> Len(NewtonCalls)]
    ELSE IF /\ newton[call] # Raised
            /\ Converged(cash_flows, newton[call], Tolerance(call))
            /\ InRange(newton[call])
         THEN [result |-> newton[call], calls |-> call]
         ELSE Search(cash_flows, newton, call + 1)

xirr_search(cash_flows, newton) ==
    IF Len(cash_flows) < 2 THEN [result |-> ZeroRate, calls |-> 0]
    ELSE IF Cardinality({cash_flows[i].date : i \in 1..Len(cash_flows)}) = 1
    THEN [result |-> ZeroRate, calls |-> 0]
    ELSE Search(cash_flows, newton, 1)

\* number of leading calls whose answer is drawn freely
MaxAnswered == 3

\* <<amount paid, terminal valuation, days between>>: a gain of 0.5% a day
\* met exactly, one met within a residual of 0.00025 (between the two
\* tolerances), and a loss of 10% in a day, whose rate is out of range
SearchSeries == {<<200, 201, 1>>, <<3990, 4030, 2>>, <<200, 180, 1>>}

\* what a call of newton answers: an exception, the rates of the series
\* above and the rate 0
Answers == {Raised, 180, ZeroRate, 201}

RECURSIVE AnswerLists(_)
AnswerLists(n) ==
    IF n = 0 THEN {<<>>}
    ELSE LET shorter == AnswerLists(n - 1)
         IN  shorter \cup {Append(l, a) : l \in shorter, a \in Answers}

\* the solver's behaviours: free answers to the leading calls and to the
\* last one, an exception in between
Newtons ==
    {[call \in 1..Len(NewtonCalls) |->
         IF call <= Len(leading) THEN leading[call]
         ELSE IF call = Len(NewtonCalls) THEN final ELSE Raised] :
        leading \in AnswerLists(MaxAnswered), final \in Answers}

SingleXirrSearch ==
    /\ ncalls = 0
    /\ \E series \in SearchSeries, newton \in Newtons :
           LET cash_flows == <<[date |-> current_day, amount |-> -series[1]],
                               [date |-> current_day + series[3], amount |-> series[2]]>>
               found == xirr_search(cash_flows, newton)
           IN  Returned([op |-> "xirr", cash_flows |-> cash_flows, newton |-> newton,
                         newton_calls |-> SubSeq(NewtonCalls, 1, found.calls),
                         result |-> found.result])

\* calculate_position_xirr called once for a position of one BUY
SinglePositionXirr ==
    /\ ncalls = 0
    /\ \E series \in SingleBuySeries :
           LET transactions == <<[date |-> current_day, amount |-> -series[1],
                                  transaction_type |-> "BUY"]>>
           IN  \E result \in calculate_position_xirr(transactions, series[2],
                                                     current_day + series[3]) :
                   Returned([op |-> "calculate_position_xirr",
                             transactions |-> transactions,
                             current_value |-> series[2],
                             current_date |-> current_day + series[3],
                             result |-> result])

SingleNext ==
    \/ SingleValidate \/ SingleBuy \/ SingleSell \/ SingleCosts \/ SingleXirr
    \/ SingleXirrSearch \/ SinglePositionXirr

SingleSpec == SingleInit /\ [][SingleNext]_vars

(***************************************************************************)
(* C15.  validate_trade_inputs fails exactly when the symbol is empty, or  *)
(* quantity <= 0, or quantity > 10000, or price <= 0, or price > 100000,   *)
(* checked in that order, the first failing check deciding the message,    *)
(* and returns (True, "OK") otherwise: quantity 10000 and price 100000 are *)
(* accepted.  execute_buy and execute_sell reject invalid inputs with that *)
(* message before any other check.                                         *)
(***************************************************************************)
\* the five checks in the claim's order: whether each fails, and its message
ValidationChecks(symbol, quantity, price) ==
    << <<symbol = "", "Symbol cannot be empty">>,
       <<quantity <= 0, "Quantity must be positive">>,
       <<quantity > 10000, "Quantity too large (max 10,000)">>,
       <<price <= 0, "Price must be positive">>,
       <<price > 100000 * 1000, "Price unrealistic">> >>

ExpectedValidation(symbol, quantity, price) ==
    LET checks == ValidationChecks(symbol, quantity, price)
        failing == {i \in 1..Len(checks) : checks[i][1]}
    IN  IF failing = {} THEN [valid |-> TRUE, message |-> "OK"]
        ELSE [valid |-> FALSE,
              message |-> checks[CHOOSE i \in failing :
                                     \A j \in failing : i <= j][2]]

ValidationDecides ==
    /\ last.op = "validate_trade_inputs" =>
           last.result = ExpectedValidation(last.symbol, last.quantity, last.price)
    /\ last.op \in {"buy", "sell"} =>
           LET expected == ExpectedValidation(last.symbol, last.quantity, last.price)
           IN  IF expected.valid
               THEN last.result.message \in
                        {"Bought", "Insufficient funds", "Sold", "No position",
                         "Insufficient quantity"}
               ELSE /\ ~last.result.success
                    /\ last.result.message = expected.message

\* the two limits themselves are accepted
ValidationDecidesWitness ==
    /\ last.op = "validate_trade_inputs"
    /\ last.quantity = 10000
    /\ last.price = 100000 * 1000
    /\ last.result = [valid |-> TRUE, message |-> "OK"]

(***************************************************************************)
(* C17.  With valid inputs, execute_buy succeeds if and only if            *)
(* cash >= price*quantity + commission; a buy whose total cost (trade      *)
(* value plus brokerage at 0.03%) exactly equals the available cash is     *)
(* accepted and leaves cash at 0, e.g. 10 shares at 1000 with cash 10,003. *)
(***************************************************************************)
BuyAcceptance ==
    (/\ last.op = "buy"
     /\ validate_trade_inputs(last.symbol, last.quantity, last.price).valid)
    => LET trade_value == last.price * last.quantity
           commission == calculate_all_costs(trade_value, TRUE)
       IN  /\ last.result.success <=> last.before.cash >= trade_value + commission
           /\ last.before.cash = trade_value + Brokerage(trade_value)
                  => last.result.success /\ cash = 0

(***************************************************************************)
(* C18.  calculate_all_costs computes, for every trade value v:            *)
(* brokerage = min(0.03% of v, 20), exchange charges = 0.00325% of v,      *)
(* regulator fees = 0.0001% of v, GST = 18% of (brokerage + exchange       *)
(* charges) and never of v itself, and STT = 0 on a buy and 0.1% of v on a *)
(* sell, so that the sell-side total exceeds the buy-side total for the    *)
(* same v by exactly 0.1% of v.                                            *)
(***************************************************************************)
\* c is amount * num / den: exactly, or (cut) with what MulRate drops, less
\* than one thousandth
IsShare(c, amount, num, den, cut) ==
    IF cut THEN den * c <= num * amount /\ num * amount < den * (c + 1)
    ELSE den * c = num * amount

SumOfEntries(b) == b.brokerage + b.stt + b.exchange_charges + b.gst + b.sebi_fees

\* a trade charged cash, and recorded in its result and (while the position
\* is held) in the ledger, the unrounded total of its costs
ChargedUnrounded ==
    (last.op \in {"buy", "sell"} /\ last.result.success) =>
        LET trade_value == last.price * last.quantity
            total == calculate_all_costs(trade_value, last.op = "buy")
            t == History(positions, last.symbol)
        IN  /\ last.result.commission = total
            /\ cash = IF last.op = "buy"
                      THEN last.before.cash - trade_value - total
                      ELSE last.before.cash + trade_value - total
            /\ t # <<>> => t[Len(t)].commission = total

BreakdownTotalIsSum ==
    /\ last.op = "calculate_all_costs" =>
           last.breakdown.total = SumOfEntries(last.breakdown)
    /\ ChargedUnrounded

(***************************************************************************)
(* C19 as amended.  Every entry of the breakdown, 'total' included, is its *)
(* unrounded amount rounded to 2 decimal places on its own: the unrounded  *)
(* total is the sum of the five unrounded components, but the 'total'      *)
(* entry can differ from the sum of the five entries, by at most 0.03.     *)
(* The amount charged to cash and stored as the commission is the          *)
(* unrounded total.                                                        *)
(***************************************************************************)
\* entry (paise) is amount (thousandths) rounded to the nearest paisa
IsRounded(entry, amount) ==
    /\ 10 * entry - amount <= 5
    /\ amount - 10 * entry <= 5

BreakdownRoundedSeparately ==
    /\ last.op = "calculate_all_costs" =>
           LET v == last.trade_value
               b == last.breakdown
               difference == b.total - SumOfEntries(b)
           IN  /\ IsRounded(b.brokerage, Brokerage(v))
               /\ IsRounded(b.stt, Stt(v, last.is_buy))
               /\ IsRounded(b.exchange_charges, ExchangeCharges(v))
               /\ IsRounded(b.gst, Gst(v))
               /\ IsRounded(b.sebi_fees, SebiFees(v))
               /\ IsRounded(b.total, last.result)
               /\ last.result = Brokerage(v) + Stt(v, last.is_buy)
                                    + ExchangeCharges(v) + Gst(v) + SebiFees(v)
               /\ difference <= 3 /\ -difference <= 3
    /\ ChargedUnrounded

\* a buy of Rs 16,000: no amount ends in half a paisa, the entries add up to
\* 6.30 and the 'total' entry is 6.29
BreakdownRoundedSeparatelyWitness ==
    /\ last.op = "calculate_all_costs"
    /\ last.is_buy
    /\ last.trade_value = 16000 * 1000
    /\ \A amount \in {Brokerage(last.trade_value), ExchangeCharges(last.trade_value),
                      Gst(last.trade_value), SebiFees(last.trade_value), last.result} :
           amount % 10 # 5
    /\ SumOfEntries(last.breakdown) = 630
    /\ last.breakdown.total = 629

(***************************************************************************)
(* C20.  For a cash-flow series consisting of a single buy followed on a   *)
(* later date by a terminal valuation, xirr returns a value > 0 whenever   *)
(* the terminal valuation is strictly greater than the amount paid and a   *)
(* value < 0 whenever it is strictly less, for every gap of at least one   *)
(* day between the two dates (including gaps of a few days).  Stated for   *)
(* the solver at its best: some value xirr can return has that sign.       *)
(***************************************************************************)
Paid(cash_flows) == -cash_flows[1].amount
Valuation(cash_flows) == cash_flows[2].amount
Gap(cash_flows) == cash_flows[2].date - cash_flows[1].date

OutgrowsDaily(paid, valuation, gap, up) ==
    valuation * Pow(100, gap) - paid * Pow(up, gap) >= (Pow(up, gap) + 999) \div 1000

\* paid - valuation / (down/100)^gap >= 0.001
UndercutsDaily(paid, valuation, gap, down) ==
    paid * Pow(down, gap) - valuation * Pow(100, gap) >= (Pow(down, gap) + 999) \div 1000

OnePositionPerSymbol ==
    /\ \A i, j \in 1..Len(positions) :
           positions[i].symbol = positions[j].symbol => i = j
    /\ (last.op = "buy" /\ last.result.success /\ last.symbol \in last.before.held)
           => /\ HeldSymbols(positions) = last.before.held
              /\ Len(History(positions, last.symbol)) >= 2

\* both symbols held, and the latest buy went into the one held longer
OnePositionPerSymbolWitness ==
    /\ Len(positions) = 2
    /\ last.op = "buy" /\ last.result.success
    /\ last.symbol \in last.before.held
    /\ positions[1].symbol = last.symbol
    /\ Len(positions[1].transactions) = 2

(***************************************************************************)
(* A new game: the session started from the initial cash with no           *)
(* position, as test_cash_flow_consistency starts it.                      *)
(***************************************************************************)
NewGameInit == Init /\ positions = <<>>

NewGameSpec == NewGameInit /\ [][Next]_vars

(***************************************************************************)
(* C28.  From the initial cash, no position and a realized P&L of 0,       *)
(* after any sequence of successful buys, sells and price updates,         *)
(* including a partial sell followed by a re-buy of the same symbol at     *)
(* another price, total_pnl (realized plus the unrealized P&L of the       *)
(* positions) equals total_value minus the initial cash; with no position  *)
(* open, realized_pnl equals cash minus the initial cash.                  *)
(***************************************************************************)
AccountingIdentity ==
    /\ total_pnl(Portfolio) = RatInt(total_value(Portfolio) - InitialCash)
    /\ positions = <<>> => realized_pnl = RatInt(cash - InitialCash)

(***************************************************************************)
(* C27.  A successful execute_buy or execute_sell on a symbol held as a    *)
(* legacy Position replaces that position, at its index, by a              *)
(* transaction-based one whose history is a synthetic opening BUY of the   *)
(* legacy quantity at the legacy avg_buy_price, with commission 0 and the  *)
(* trade's date, followed by the trade; its quantity is the legacy         *)
(* quantity plus (buy) or minus (sell) the traded one, a position brought  *)
(* to 0 is removed, and the sell's realized P&L is computed from the       *)
(* legacy avg_buy_price.                                                   *)
(***************************************************************************)
LegacyReplaced(legacy, idx, call, poss) ==
    LET opening == [date |-> call.date, quantity |-> legacy.quantity,
                    price |-> legacy.avg_buy_price, transaction_type |-> "BUY",
                    commission |-> 0]
        trade   == [date |-> call.date, quantity |-> call.quantity,
                    price |-> call.price,
                    transaction_type |-> IF call.op = "buy" THEN "BUY" ELSE "SELL",
                    commission |-> call.result.commission]
        after   == IF call.op = "buy" THEN legacy.quantity + call.quantity
                   ELSE legacy.quantity - call.quantity
    IN  /\ call.op = "sell" =>
               call.result.realized_pnl
                   = RatInt(call.price * call.quantity - call.result.commission
                            - legacy.avg_buy_price * call.quantity)
        /\ IF after = 0
           THEN poss = Pop(positions, idx)
           ELSE /\ Len(poss) = Len(positions)
                /\ \A i \in 1..Len(poss) : i # idx => poss[i] = positions[i]
                /\ HasAddTransaction(poss[idx])
                /\ poss[idx].symbol = legacy.symbol
                /\ poss[idx].transactions = <<opening, trade>>
                /\ poss[idx].quantity = after

LegacyConversion ==
    [][(IsCall /\ last'.op \in {"buy", "sell"} /\ last'.result.success
            /\ FindPosition(positions, last'.symbol) # 0
            /\ ~HasAddTransaction(positions[FindPosition(positions, last'.symbol)]))
        => LegacyReplaced(positions[FindPosition(positions, last'.symbol)],
                          FindPosition(positions, last'.symbol), last', positions')]_vars

\* one of the two legacy shares sold: the history opens with the synthetic BUY
\* at the legacy average, which the re-priced position no longer shows
LegacyConversionWitness ==
    /\ last.op = "sell" /\ last.result.success /\ last.symbol \in last.before.held
    /\ Len(positions) = 1
    /\ Len(positions[1].transactions) = 2
    /\ positions[1].transactions[1].commission = 0
    /\ positions[1].transactions[1].price # last.price
    /\ positions[1].quantity = 1

\* the legacy position bought onto
LegacyBoughtWitness ==
    /\ last.op = "buy" /\ last.result.success /\ last.symbol \in last.before.held
    /\ Len(positions[1].transactions) = 2
    /\ positions[1].transactions[1].commission = 0
    /\ positions[1].quantity = 3

(***************************************************************************)
(* transaction_models.py: get_fifo_sells.  buy_queue holds the BUY lots    *)
(* not yet used up, oldest first; indices count from 0 as in the source.   *)
(***************************************************************************)
FifoMatch(buy_trans, i, sold_quantity, sell_price) ==
    [buy_index |-> buy_trans.index, sell_index |-> i, quantity |-> sold_quantity,
     pnl |-> sold_quantity * (sell_price - buy_trans.price)]

\* variant: the lot bought last is matched first
RECURSIVE MatchSellLastLot(_, _, _, _, _)
MatchSellLastLot(buy_queue, results, i, sell_quantity, sell_price) ==
    IF sell_quantity > 0 /\ buy_queue # <<>>
    THEN LET n == Len(buy_queue)
             buy_trans == buy_queue[n]
         IN  IF buy_trans.remaining <= sell_quantity
             THEN MatchSellLastLot(
                      SubSeq(buy_queue, 1, n - 1),
                      Append(results,
                             FifoMatch(buy_trans, i, buy_trans.remaining, sell_price)),
                      i, sell_quantity - buy_trans.remaining, sell_price)
             ELSE <<[buy_queue EXCEPT ![n].remaining = @ - sell_quantity],
                    Append(results, FifoMatch(buy_trans, i, sell_quantity, sell_price))>>
    ELSE <<buy_queue, results>>

\* variant: a lot sold in part is left whole
RECURSIVE MatchSellLotLeftWhole(_, _, _, _, _)
MatchSellLotLeftWhole(buy_queue, results, i, sell_quantity, sell_price) ==
    IF sell_quantity > 0 /\ buy_queue # <<>>
    THEN LET buy_trans == Head(buy_queue)
         IN  IF buy_trans.remaining <= sell_quantity
             THEN MatchSellLotLeftWhole(
                      Tail(buy_queue),
                      Append(results,
                             FifoMatch(buy_trans, i, buy_trans.remaining, sell_price)),
                      i, sell_quantity - buy_trans.remaining, sell_price)
             ELSE <<buy_queue,
                    Append(results, FifoMatch(buy_trans, i, sell_quantity, sell_price))>>
    ELSE <<buy_queue, results>>

\* the while loop of lines 190-218: <<buy_queue, results>> after the SELL at i
RECURSIVE MatchSell(_, _, _, _, _)
MatchSell(buy_queue, results, i, sell_quantity, sell_price) ==
    IF sell_quantity > 0 /\ buy_queue # <<>>
    THEN LET buy_trans == Head(buy_queue)
         IN  IF buy_trans.remaining <= sell_quantity
             THEN MatchSell(
                      Tail(buy_queue),
                      Append(results,
                             FifoMatch(buy_trans, i, buy_trans.remaining, sell_price)),
                      i, sell_quantity - buy_trans.remaining, sell_price)
             ELSE <<[buy_queue EXCEPT ![1].remaining = @ - sell_quantity],
                    Append(results, FifoMatch(buy_trans, i, sell_quantity, sell_price))>>
    ELSE <<buy_queue, results>>

\* the for loop of lines 176-218, i counting from 0
RECURSIVE FifoLoop(_, _, _, _)
FifoLoop(transactions, i, buy_queue, results) ==
    IF i >= Len(transactions) THEN results
    ELSE LET trans == transactions[i + 1]
         IN  IF trans.transaction_type = "BUY"
             THEN FifoLoop(transactions, i + 1,
                           Append(buy_queue,
                                  [index |-> i, quantity |-> trans.quantity,
                                   price |-> trans.price,
                                   remaining |-> trans.quantity]),
                           results)
             ELSE LET matched == MatchSell(buy_queue, results, i,
                                           trans.quantity, trans.price)
                  IN  FifoLoop(transactions, i + 1, matched[1], matched[2])

get_fifo_sells(pos) ==
    IF pos.transactions = <<>> THEN <<>>
    ELSE FifoLoop(pos.transactions, 0, <<>>, <<>>)

(***************************************************************************)
(* Ledgers.  A third specification builds an EnhancedPosition from a       *)
(* transaction list, as the tests and the DAO do, and calls one of its     *)
(* methods once.  The lists are free: a SELL may come before any BUY or    *)
(* exceed what was bought.  Every transaction is dated on the day of the   *)
(* call and carries a commission of Re 1; the test's ledger carries the    *)
(* commissions the executor charged.                                       *)
(***************************************************************************)
\* longest transaction list
MaxLedger == 3

LedgerQuantities == {1, 2, 3}
LedgerPrices == {100 * 1000, 120 * 1000}

LedgerTransactions ==
    {PositionTransaction(0, quantity, price, transaction_type, 1000) :
        quantity \in LedgerQuantities, price \in LedgerPrices,
        transaction_type \in {"BUY", "SELL"}}

RECURSIVE LedgerLists(_)
LedgerLists(n) ==
    IF n = 0 THEN {<<>>}
    ELSE LET shorter == LedgerLists(n - 1)
         IN  shorter \cup {Append(l, t) : l \in shorter, t \in LedgerTransactions}

\* the ledger of test_fifo_realized_pnl_with_multiple_buys
TestLedger ==
    <<PositionTransaction(0, 100, 100 * 1000, "BUY",
                          calculate_all_costs(100 * 100 * 1000, TRUE)),
      PositionTransaction(0, 50, 110 * 1000, "BUY",
                          calculate_all_costs(50 * 110 * 1000, TRUE)),
      PositionTransaction(0, 120, 120 * 1000, "SELL",
                          calculate_all_costs(120 * 120 * 1000, FALSE))>>

LedgerInit ==
    /\ cash = InitialCash
    /\ realized_pnl = RatInt(0)
    /\ \E transactions \in LedgerLists(MaxLedger) \cup {TestLedger} :
           positions = <<EnhancedPosition("A", 110 * 1000, transactions)>>
    /\ current_day = 0
    /\ ncalls = 0
    /\ last = NoCall
    /\ prev = NoCall

LedgerFifo ==
    /\ ncalls = 0
    /\ Returned([op |-> "get_fifo_sells", transactions |-> positions[1].transactions,
                 result |-> get_fifo_sells(positions[1])])

\* the series calculate_position_xirr builds for the position: none for a
\* position without transactions
SeriesOf(pos, current_date) ==
    IF pos.transactions = <<>> THEN <<>>
    ELSE PositionCashFlows(
             [i \in 1..Len(pos.transactions) |-> XirrTransaction(pos.transactions[i])],
             (pos.quantity * pos.current_price) \div 1000,
             current_date)

\* calculate_xirr as of the day of the trades, or the day after for a ledger
\* of one BUY (a day's gain or loss of a tenth is out of xirr's range)
LedgerCalculateXirr ==
    /\ ncalls = 0
    /\ \E current_date \in {current_day, current_day + 1} :
           /\ \/ current_date = current_day
              \/ /\ Len(positions[1].transactions) = 1
                 /\ positions[1].transactions[1].transaction_type = "BUY"
           /\ \E result \in calculate_xirr(positions[1], current_date) :
                  Returned([op |-> "calculate_xirr", position |-> positions[1],
                            current_date |-> current_date,
                            cash_flows |-> SeriesOf(positions[1], current_date),
                            result |-> result])

\* xirr called with the first flows of the position's series
LedgerXirr ==
    /\ ncalls = 0
    /\ \E n \in 0..(Len(positions[1].transactions) + 1) :
           LET cash_flows ==
                   SubSeq(PositionCashFlows(
                              [i \in 1..Len(positions[1].transactions) |->
                                  XirrTransaction(positions[1].transactions[i])],
                              (positions[1].quantity
                                   * positions[1].current_price) \div 1000,
                              current_day),
                          1, n)
           IN  \E result \in xirr(cash_flows) :
                   Returned([op |-> "xirr", cash_flows |-> cash_flows,
                             result |-> result])

LedgerNext == LedgerFifo \/ LedgerCalculateXirr \/ LedgerXirr

LedgerSpec == LedgerInit /\ [][LedgerNext]_vars

(***************************************************************************)
(* Vocabulary of the FIFO claims: transactions and matches are numbered    *)
(* from 0 as get_fifo_sells numbers them.                                  *)
(***************************************************************************)
\* indices of the transactions of one side
SideIndices(transactions, side) ==
    {i \in 0..(Len(transactions) - 1) : transactions[i + 1].transaction_type = side}

\* shares of that side in the transactions before index i
SharesBefore(transactions, side, i) ==
    SumFn([j \in 0..(Len(transactions) - 1) |-> transactions[j + 1].quantity],
          {j \in SideIndices(transactions, side) : j < i})

\* shares the matches attribute to the BUY lot (side "BUY") or to the SELL
\* (side "SELL") at index i
Attributed(matches, side, i) ==
    SumFn([m \in 1..Len(matches) |-> matches[m].quantity],
          {m \in 1..Len(matches) :
              IF side = "BUY" THEN matches[m].buy_index = i
              ELSE matches[m].sell_index = i})

\* no SELL exceeds what was bought and not yet sold before it
NeverOversold(transactions) ==
    \A i \in SideIndices(transactions, "SELL") :
        SharesBefore(transactions, "SELL", i) + transactions[i + 1].quantity
            <= SharesBefore(transactions, "BUY", i)

\* with the shares numbered in the order bought, the shares the SELL at s
\* takes that belong to the BUY lot at b
SharesOfLotSold(transactions, b, s) ==
    LET lot_from  == SharesBefore(transactions, "BUY", b)
        lot_to    == lot_from + transactions[b + 1].quantity
        sell_from == SharesBefore(transactions, "SELL", s)
        sell_to   == sell_from + transactions[s + 1].quantity
        from      == IF lot_from > sell_from THEN lot_from ELSE sell_from
        to        == Min(lot_to, sell_to)
    IN  IF to > from THEN to - from ELSE 0

(***************************************************************************)
(* C26.  get_fifo_sells matches each SELL against the BUY lots not yet     *)
(* used up, oldest first, a lot being used up before a later one is        *)
(* touched; each match carries the matched quantity and                    *)
(* pnl = quantity * (sell price - the lot's buy price); in a ledger whose  *)
(* sells never exceed the buys before them the quantities matched to a     *)
(* sell add up to its quantity.  Buy 100 at 100, buy 50 at 110, sell 120   *)
(* at 120 gives two matches: 100 shares of the first lot, 20 of the        *)
(* second.                                                                 *)
(***************************************************************************)
FifoOldestFirst ==
    last.op = "get_fifo_sells" =>
        LET t == last.transactions
            matches == last.result
        IN  /\ \A m \in 1..Len(matches) :
                   /\ matches[m].buy_index \in SideIndices(t, "BUY")
                   /\ matches[m].sell_index \in SideIndices(t, "SELL")
                   /\ matches[m].quantity > 0
                   /\ matches[m].pnl = matches[m].quantity
                          * (t[matches[m].sell_index + 1].price
                                 - t[matches[m].buy_index + 1].price)
            \* in the order of the sells and, within a sell, of the lots
            /\ \A m, n \in 1..Len(matches) :
                   m < n => \/ matches[m].sell_index < matches[n].sell_index
                            \/ /\ matches[m].sell_index = matches[n].sell_index
                               /\ matches[m].buy_index < matches[n].buy_index
            \* a later lot is touched only when every earlier one is used up
            /\ \A m \in 1..Len(matches) :
                   \A b \in SideIndices(t, "BUY") :
                       b < matches[m].buy_index =>
                           SumFn([n \in 1..Len(matches) |-> matches[n].quantity],
                                 {n \in 1..m : matches[n].buy_index = b})
                               = t[b + 1].quantity
            /\ NeverOversold(t) =>
                   /\ \A s \in SideIndices(t, "SELL") :
                          Attributed(matches, "SELL", s) = t[s + 1].quantity
                   /\ \A b \in SideIndices(t, "BUY"), s \in SideIndices(t, "SELL") :
                          SumFn([n \in 1..Len(matches) |-> matches[n].quantity],
                                {n \in 1..Len(matches) :
                                    /\ matches[n].buy_index = b
                                    /\ matches[n].sell_index = s})
                              = SharesOfLotSold(t, b, s)
            /\ t = TestLedger =>
                   matches = <<[buy_index |-> 0, sell_index |-> 2, quantity |-> 100,
                                pnl |-> 100 * 20 * 1000],
                               [buy_index |-> 1, sell_index |-> 2, quantity |-> 20,
                                pnl |-> 20 * 10 * 1000]>>

\* the ledger of the test, matched
FifoOldestFirstWitness ==
    /\ last.op = "get_fifo_sells"
    /\ last.transactions = TestLedger
    /\ Len(last.result) = 2
    /\ last.result[2].quantity = 20

(***************************************************************************)
(* C29.  For any transaction list, one whose SELL exceeds the shares       *)
(* bought before it included, get_fifo_sells returns, attributing to no    *)
(* BUY lot more shares than its quantity, to no SELL more than its         *)
(* quantity, and matching no SELL against a BUY that comes after it; the   *)
(* part of a SELL in excess of the shares left produces no match.          *)
(***************************************************************************)
\* shares bought before the SELL at s and not matched to an earlier SELL
LeftBefore(transactions, matches, s) ==
    SharesBefore(transactions, "BUY", s)
        - SumFn([m \in 1..Len(matches) |-> matches[m].quantity],
                {m \in 1..Len(matches) : matches[m].sell_index < s})

FifoWithinLots ==
    last.op = "get_fifo_sells" =>
        LET t == last.transactions
            matches == last.result
        IN  /\ \A b \in SideIndices(t, "BUY") :
                   Attributed(matches, "BUY", b) <= t[b + 1].quantity
            /\ \A s \in SideIndices(t, "SELL") :
                   /\ Attributed(matches, "SELL", s) <= t[s + 1].quantity
                   /\ Attributed(matches, "SELL", s)
                          = Min(t[s + 1].quantity, LeftBefore(t, matches, s))
            /\ \A m \in 1..Len(matches) :
                   /\ matches[m].buy_index \in SideIndices(t, "BUY")
                   /\ matches[m].sell_index \in SideIndices(t, "SELL")
                   /\ matches[m].buy_index < matches[m].sell_index

\* a SELL of 3 after a BUY of 1: one match of 1 share, and the later BUY is
\* not touched by it
FifoWithinLotsWitness ==
    /\ last.op = "get_fifo_sells"
    /\ Len(last.transactions) = 3
    /\ last.transactions[1].transaction_type = "BUY"
    /\ last.transactions[1].quantity = 1
    /\ last.transactions[2].transaction_type = "SELL"
    /\ last.transactions[2].quantity = 3
    /\ last.transactions[3].transaction_type = "BUY"
    /\ Len(last.result) = 1
    /\ last.result[1].quantity = 1

(***************************************************************************)
(* C30.  For a ledger the executor produced and whose quantity is back at  *)
(* 0, the pnl of the matches get_fifo_sells reports adds up to the         *)
(* proceeds q*p of the SELLs minus the q*p of the BUYs: the net result     *)
(* without commissions, which differs from the sum of the average-cost     *)
(* realized P&L amounts of its sells by exactly the commissions of all its *)
(* transactions.  Checked at the sell that closes the position, which is   *)
(* then removed, for a portfolio whose every sell so far was one of this   *)
(* ledger: realized_pnl is then the sum of the ledger's amounts.           *)
(***************************************************************************)
\* the ledger the closing sell leaves before its position is removed
ClosedLedger(position, call) ==
    SoldPosition(position, call.symbol, call.price, call.date,
                 PositionTransaction(call.date, call.quantity, call.price, "SELL",
                                     call.result.commission))

FifoTotal(pos) ==
    LET matches == get_fifo_sells(pos)
    IN  SumFn([m \in 1..Len(matches) |-> matches[m].pnl], 1..Len(matches))

\* sum of q*p over the transactions of one side
TradedValue(transactions, side) ==
    SumFn([i \in 1..Len(transactions) |->
              transactions[i].quantity * transactions[i].price],
          Side(transactions, side))

FifoNetResult(ledger) ==
    FifoTotal(ledger) = TradedValue(ledger.transactions, "SELL")
                            - TradedValue(ledger.transactions, "BUY")

FifoAgainstAverageCost(ledger, realized) ==
    RatSub(RatInt(FifoTotal(ledger)), realized)
        = RatInt(SumFn([i \in 1..Len(ledger.transactions) |->
                           ledger.transactions[i].commission],
                       1..Len(ledger.transactions)))

FifoTotalOfClosedLedger ==
    [][(IsCall /\ last'.op = "sell" /\ last'.result.success
            /\ Held(positions, last'.symbol).quantity = last'.quantity
            /\ Len(ClosedLedger(Held(positions, last'.symbol), last').transactions)
                   >= ncalls')
        => LET ledger == ClosedLedger(Held(positions, last'.symbol), last')
           IN  /\ FifoNetResult(ledger)
               /\ FifoAgainstAverageCost(ledger, realized_pnl')]_vars

\* the first half alone, for every position closed
FifoTotalIsNetResult ==
    [][(IsCall /\ last'.op = "sell" /\ last'.result.success
            /\ Held(positions, last'.symbol).quantity = last'.quantity)
        => FifoNetResult(ClosedLedger(Held(positions, last'.symbol), last'))]_vars

\* the second half for the ledgers in which no BUY follows a SELL
FifoAgainstAverageCostBuysFirst ==
    [][(IsCall /\ last'.op = "sell" /\ last'.result.success
            /\ Held(positions, last'.symbol).quantity = last'.quantity
            /\ Len(ClosedLedger(Held(positions, last'.symbol), last').transactions)
                   >= ncalls'
            /\ \A i \in Side(History(positions, last'.symbol), "BUY"),
                  j \in Side(History(positions, last'.symbol), "SELL") : i < j)
        => FifoAgainstAverageCost(ClosedLedger(Held(positions, last'.symbol), last'),
                                  realized_pnl')]_vars

(***************************************************************************)
(* C21.  xirr returns 0.0 when given fewer than two cash flows or flows    *)
(* with fewer than two distinct dates.  So the XIRR of a position whose    *)
(* every transaction is dated on the valuation date is 0, and so is that   *)
(* of a position with no transactions, which calculate_position_xirr       *)
(* answers without building a series.                                      *)
(***************************************************************************)
DistinctDates(cash_flows) == {cash_flows[i].date : i \in 1..Len(cash_flows)}

NoFlowXirrWitness ==
    last.op = "xirr" /\ last.cash_flows = <<>> /\ last.result = ZeroRate

(***************************************************************************)
(* C24.  EnhancedPosition.calculate_xirr builds its series from the        *)
(* ledger: one flow per transaction, in ledger order and at the            *)
(* transaction's date, of -(quantity * price) for a BUY and                *)
(* +(quantity * price) for a SELL, the commission left out; then exactly   *)
(* one more flow at the valuation date, of the quantity held times         *)
(* current_price.  The call leaves the position as it was.  (Amounts of    *)
(* the series are rupees, those of the ledger thousandths.)                *)
(***************************************************************************)
XirrSeriesFromLedger ==
    (last.op = "calculate_xirr" /\ last.position.transactions # <<>>) =>
        LET t == last.position.transactions
            cash_flows == last.cash_flows
        IN  /\ Len(cash_flows) = Len(t) + 1
            /\ \A i \in 1..Len(t) :
                   /\ cash_flows[i].date = t[i].date
                   /\ cash_flows[i].amount * 1000
                          = IF t[i].transaction_type = "BUY"
                            THEN -(t[i].quantity * t[i].price)
                            ELSE t[i].quantity * t[i].price
            /\ cash_flows[Len(t) + 1].date = last.current_date
            /\ cash_flows[Len(t) + 1].amount * 1000
                   = SumFn([i \in 1..Len(t) |->
                               IF t[i].transaction_type = "BUY"
                               THEN t[i].quantity ELSE -t[i].quantity],
                           1..Len(t)) * last.position.current_price
            /\ positions = <<last.position>>

\* a BUY of 3, a SELL of 1 and a BUY of 2: four flows, the last worth the four
\* shares held
XirrSeriesFromLedgerWitness ==
    /\ last.op = "calculate_xirr"
    /\ Len(last.cash_flows) = 4
    /\ last.cash_flows[1].amount < 0
    /\ last.cash_flows[2].amount > 0
    /\ last.cash_flows[3].amount < 0
    /\ last.cash_flows[4].amount = 4 * 110

(***************************************************************************)
(* C22.  Every value xirr returns is the sentinel 0.0 or a rate in         *)
(* [-0.999, 10]: no result below -0.999 or above 10 is ever returned, by   *)
(* xirr or by calculate_position_xirr.  As a growth per day the bounds are *)
(* 0.001^(1/365.25) and 11^(1/365.25); the grid values within them are     *)
(* 197/200 to 201/200.                                                     *)
(***************************************************************************)
XirrWithinBounds ==
    last.op \in {"xirr", "calculate_position_xirr"} =>
        \/ last.result = ZeroRate
        \/ /\ last.result * 1000000 >= 200 * 981266
           /\ last.result * 1000000 <= 200 * 1006586

\* the solver found the rate of a loss of 10% in a day, which is below
\* -0.999 a year, and then that of no change: neither is returned
XirrWithinBoundsWitness ==
    /\ last.op = "xirr"
    /\ "newton" \in DOMAIN last
    /\ Valuation(last.cash_flows) = 180
    /\ last.newton[1] = 180
    /\ last.newton[2] = ZeroRate
    /\ last.result = ZeroRate

\* a rate within the bounds returned by calculate_position_xirr
PositionXirrWithinBoundsWitness ==
    /\ last.op = "calculate_position_xirr"
    /\ last.result = 201

(***************************************************************************)
(* C23.  xirr ends after a bounded search in a fixed order: newton is      *)
(* called once from the initial guess (at most 100 iterations) and, if     *)
(* that gave no accepted root, once per entry of the fallback list in list *)
(* order, from -0.995 to 8.0 (at most 200 iterations each).  It returns    *)
(* the first root that passes the tolerance (1e-4 after the first call,    *)
(* 1e-3 after a fallback call) and lies in [-0.999, 10]; if no call gives  *)
(* one, or the solver raises, it returns 0.0.                              *)
(***************************************************************************)
\* the answer to the call-th call of newton is a root xirr accepts
AcceptedAnswer(cash_flows, newton, call) ==
    LET answer == newton[call]
        paid == Paid(cash_flows)
        valuation == Valuation(cash_flows)
        gap == Gap(cash_flows)
        residual == valuation * Pow(200, gap) - paid * Pow(answer, gap)
    IN  /\ answer # Raised
        \* |residual| / answer^gap below 1e-4 or 1e-3, in whole numbers
        /\ IF call = 1
           THEN Abs(residual) <= (Pow(answer, gap) - 1) \div 10000
           ELSE Abs(residual) <= (Pow(answer, gap) - 1) \div 1000
        /\ answer \in 197..201

XirrSearchOrder ==
    (last.op = "xirr" /\ "newton" \in DOMAIN last) =>
        LET accepted == {call \in 1..43 :
                            AcceptedAnswer(last.cash_flows, last.newton, call)}
            made == Len(last.newton_calls)
        IN  /\ made <= 43
            /\ made >= 1
            /\ last.newton_calls[1] = [guess |-> 100, maxiter |-> 100]
            /\ \A call \in 2..made :
                   /\ last.newton_calls[call].maxiter = 200
                   /\ last.newton_calls[call].guess = guess_list[call - 1]
            /\ \A j, k \in 1..Len(guess_list) : j < k => guess_list[j] < guess_list[k]
            /\ Len(guess_list) = 42 /\ guess_list[1] = -995 /\ guess_list[42] = 8000
            /\ IF accepted = {}
               THEN made = 43 /\ last.result = ZeroRate
               ELSE /\ made \in accepted
                    /\ \A call \in accepted : made <= call
                    /\ last.result = last.newton[made]

\* the first call answers a rate whose residual is between the two
\* tolerances, and so does the first fallback call: the second is returned
XirrSearchOrderWitness ==
    /\ last.op = "xirr"
    /\ "newton" \in DOMAIN last
    /\ Paid(last.cash_flows) = 3990
    /\ last.newton[1] = 201
    /\ last.newton[2] = 201
    /\ Len(last.newton_calls) = 2
    /\ last.result = 201

\* every call raises, the last one included: 0.0 after all 43 calls
XirrSearchExhaustedWitness ==
    /\ last.op = "xirr"
    /\ "newton" \in DOMAIN last
    /\ \A call \in 1..43 : last.newton[call] = Raised
    /\ Len(last.newton_calls) = 43
    /\ last.result = ZeroRate

====
